---- MODULE Spec2Model ----
(***************************************************************************)
(* Model of the contiguous-memory allocator of src/main.cpp:               *)
(* class MemoryBlock, class MemoryAllocator and the command loop of main.  *)
(*                                                                         *)
(* A block is a record [start, end, process]; process = "" means free.     *)
(* The vector `blocks` is a sequence; the C++ code indexes it from 0, the  *)
(* model keeps the 0-based loop indices of the code and reads bs[i + 1].   *)
(***************************************************************************)
EXTENDS Integers, Sequences, FiniteSets, TLC

(* ---------------------------- bounds ----------------------------------- *)

\* Largest total memory size entered at start-up.
MaxMemory == 4

\* Largest size asked for in an RQ command.
MaxRequest == 4

\* How far below zero a typed number goes: the total memory size entered at
\* start-up and the size of an RQ command.
MaxNegative == 1

\* Smallest total memory size entered at start-up.  main passes the number it
\* read to the constructor without a test: it may be negative, and it is 0
\* when the input does not parse.
MinMemory == 0 - MaxNegative

\* Smallest size an RQ command passes on.  `int size` has no initialiser and
\* main never tests the stream: a size that does not parse is 0, a size that
\* is never extracted is whatever the variable held, and a typed size may be
\* negative.
MinRequest == 0 - MaxNegative

\* How many commands the model follows a run for from its first RQ line that
\* breaks the allocation contract (empty process name or size <= 0), that
\* line included.  Each such request can add a block of size <= 0 without
\* using memory up and move a block boundary downwards, so without a limit
\* the vector and its addresses grow for ever.
MaxMalformedTail == 1

\* Process names typed in RQ commands (non-empty).
Owners == {"A", "B"}

\* Labels typed in RL commands: the names above and the empty string that
\* `iss >> process` leaves when RL has no argument.
ReleaseLabels == Owners \cup {""}

\* Strategy characters typed in RQ commands: the three the switch knows, one
\* lower-case letter and one letter that is no strategy at all.
StrategyLetters == {"F", "B", "W", "f", "Q"}

(* ------------------------- MemoryBlock --------------------------------- *)

MemoryBlock(s, e, p) == [start |-> s, end |-> e, process |-> p]

size(b) == b.end - b.start + 1

empty(b) == b.process = ""

(* ------------------------- std::sort ----------------------------------- *)

\* The place (1-based) std::sort gives the element at index i of bs: behind
\* every element of smaller start and behind the elements of equal start that
\* stand before it.
RankByStart(bs, i) ==
    Cardinality({ j \in 1..Len(bs) :
                    \/ bs[j].start < bs[i].start
                    \/ bs[j].start = bs[i].start /\ j <= i })

\* std::sort(blocks.begin(), blocks.end(), a.start < b.start).  The starts of
\* the blocks are pairwise distinct whenever every block has size >= 1, and
\* the order std::sort produces is then the unique ascending one.  Blocks of
\* size <= 0 can share a start; on a vector of fewer than 16 elements the
\* library's std::sort is an insertion sort from the left, which keeps blocks
\* of equal start in the order they had.
SortByStart(bs) ==
    [ k \in 1..Len(bs) |->
        bs[CHOOSE i \in 1..Len(bs) : RankByStart(bs, i) = k] ]

\* blocks.erase(blocks.begin() + i), i 0-based.
Erase(bs, i) == SubSeq(bs, 1, i) \o SubSeq(bs, i + 2, Len(bs))

(* ------------------------- allocation ---------------------------------- *)

\* The block of code shared by the three strategies once index i is chosen:
\* shrink or erase the free block, push_back the allocated one, sort.
PlaceAtNoErase(bs, i, process, sz) ==
    LET s == bs[i + 1].start
        e == s + sz - 1
        shrunk == [bs EXCEPT ![i + 1].start = e + 1]
    IN  SortByStart(Append(shrunk, MemoryBlock(s, e, process)))

PlaceAtNoSort(bs, i, process, sz) ==
    LET s == bs[i + 1].start
        e == s + sz - 1
        rest == IF size(bs[i + 1]) > sz
                THEN [bs EXCEPT ![i + 1].start = e + 1]
                ELSE Erase(bs, i)
    IN  Append(rest, MemoryBlock(s, e, process))

PlaceAt(bs, i, process, sz) ==
    LET s == bs[i + 1].start
        e == s + sz - 1
        rest == IF size(bs[i + 1]) > sz
                THEN [bs EXCEPT ![i + 1].start = e + 1]
                ELSE Erase(bs, i)
    IN  SortByStart(Append(rest, MemoryBlock(s, e, process)))

\* The scan of allocateFirstFit from index i on: the index of the first free
\* block of size >= sz, or -1 when the loop runs off the end.
RECURSIVE FirstFitScanStrict(_, _, _)
FirstFitScanStrict(bs, sz, i) ==
    IF i >= Len(bs) THEN -1
    ELSE IF empty(bs[i + 1]) /\ size(bs[i + 1]) > sz THEN i
    ELSE FirstFitScanStrict(bs, sz, i + 1)

RECURSIVE FirstFitScan(_, _, _)
FirstFitScan(bs, sz, i) ==
    IF i >= Len(bs) THEN -1
    ELSE IF empty(bs[i + 1]) /\ size(bs[i + 1]) >= sz THEN i
    ELSE FirstFitScan(bs, sz, i + 1)

allocateFirstFitRejectActive(bs, process, sz) ==
    LET i == FirstFitScan(bs, sz, 0)
    IN  IF i # -1 /\ \A k \in 1..Len(bs) : bs[k].process # process
        THEN [ok |-> TRUE, blocks |-> PlaceAt(bs, i, process, sz)]
        ELSE [ok |-> FALSE, blocks |-> bs]

allocateFirstFit(bs, process, sz) ==
    LET i == FirstFitScan(bs, sz, 0)
    IN  IF i # -1
        THEN [ok |-> TRUE, blocks |-> PlaceAt(bs, i, process, sz)]
        ELSE [ok |-> FALSE, blocks |-> bs]

\* The scan of allocateBestFit from index i on, carrying bestFitIndex and
\* bestFitSize; the result is the final bestFitIndex.
RECURSIVE BestFitScanLast(_, _, _, _, _)
BestFitScanLast(bs, sz, i, bestFitIndex, bestFitSize) ==
    IF i >= Len(bs) THEN bestFitIndex
    ELSE IF empty(bs[i + 1]) /\ size(bs[i + 1]) >= sz
            /\ size(bs[i + 1]) <= bestFitSize
    THEN BestFitScanLast(bs, sz, i + 1, i, size(bs[i + 1]))
    ELSE BestFitScanLast(bs, sz, i + 1, bestFitIndex, bestFitSize)

RECURSIVE BestFitScan(_, _, _, _, _)
BestFitScan(bs, sz, i, bestFitIndex, bestFitSize) ==
    IF i >= Len(bs) THEN bestFitIndex
    ELSE IF empty(bs[i + 1]) /\ size(bs[i + 1]) >= sz
            /\ size(bs[i + 1]) < bestFitSize
    THEN BestFitScan(bs, sz, i + 1, i, size(bs[i + 1]))
    ELSE BestFitScan(bs, sz, i + 1, bestFitIndex, bestFitSize)

allocateBestFitLowInit(bs, mem, process, sz) ==
    LET i == BestFitScan(bs, sz, 0, -1, mem)
    IN  IF i # -1
        THEN [ok |-> TRUE, blocks |-> PlaceAt(bs, i, process, sz)]
        ELSE [ok |-> FALSE, blocks |-> bs]

allocateBestFit(bs, mem, process, sz) ==
    LET i == BestFitScan(bs, sz, 0, -1, mem + 1)
    IN  IF i # -1
        THEN [ok |-> TRUE, blocks |-> PlaceAt(bs, i, process, sz)]
        ELSE [ok |-> FALSE, blocks |-> bs]

\* The scan of allocateWorstFit, carrying worstFitIndex and worstFitSize.
RECURSIVE WorstFitScanLast(_, _, _, _, _)
WorstFitScanLast(bs, sz, i, worstFitIndex, worstFitSize) ==
    IF i >= Len(bs) THEN worstFitIndex
    ELSE IF empty(bs[i + 1]) /\ size(bs[i + 1]) >= sz
            /\ size(bs[i + 1]) >= worstFitSize
    THEN WorstFitScanLast(bs, sz, i + 1, i, size(bs[i + 1]))
    ELSE WorstFitScanLast(bs, sz, i + 1, worstFitIndex, worstFitSize)

RECURSIVE WorstFitScan(_, _, _, _, _)
WorstFitScan(bs, sz, i, worstFitIndex, worstFitSize) ==
    IF i >= Len(bs) THEN worstFitIndex
    ELSE IF empty(bs[i + 1]) /\ size(bs[i + 1]) >= sz
            /\ size(bs[i + 1]) > worstFitSize
    THEN WorstFitScan(bs, sz, i + 1, i, size(bs[i + 1]))
    ELSE WorstFitScan(bs, sz, i + 1, worstFitIndex, worstFitSize)

allocateWorstFit(bs, process, sz) ==
    LET i == WorstFitScan(bs, sz, 0, -1, -1)
    IN  IF i # -1
        THEN [ok |-> TRUE, blocks |-> PlaceAt(bs, i, process, sz)]
        ELSE [ok |-> FALSE, blocks |-> bs]

\* switch (strategy) of processRequest; the default branch prints a message
\* and returns false.
processRequestDefaultFirstFit(bs, mem, process, sz, strategy) ==
    CASE strategy = "F" -> allocateFirstFit(bs, process, sz)
      [] strategy = "B" -> allocateBestFit(bs, mem, process, sz)
      [] strategy = "W" -> allocateWorstFit(bs, process, sz)
      [] OTHER -> allocateFirstFit(bs, process, sz)

processRequest(bs, mem, process, sz, strategy) ==
    CASE strategy = "F" -> allocateFirstFit(bs, process, sz)
      [] strategy = "B" -> allocateBestFit(bs, mem, process, sz)
      [] strategy = "W" -> allocateWorstFit(bs, process, sz)
      [] OTHER -> [ok |-> FALSE, blocks |-> bs]

(* ------------------------- coalescing ---------------------------------- *)

\* The largest value of size_t.  The loop index of mergeAdjacentFreeBlocks is
\* a size_t: `i--` at i = 0 wraps to this value and the `i++` of the loop
\* header wraps it back to 0.  The model's integers are narrower than 64
\* bits, so the value stands for 2^64 - 1; only the wrap is used.
SIZE_MAX == 2147483647

Dec(i) == IF i = 0 THEN SIZE_MAX ELSE i - 1

Inc(i) == IF i = SIZE_MAX THEN 0 ELSE i + 1

\* blocks.size() - 1 in size_t arithmetic.
SizeMinusOne(bs) == Dec(Len(bs))

\* The for loop of mergeAdjacentFreeBlocks from index i on.
RECURSIVE MergeLoopNoStepBack(_, _)
MergeLoopNoStepBack(bs, i) ==
    IF ~(i < SizeMinusOne(bs)) THEN bs
    ELSE IF empty(bs[i + 1]) /\ empty(bs[i + 2])
    THEN MergeLoopNoStepBack(Erase([bs EXCEPT ![i + 1].end = bs[i + 2].end],
                                   i + 1), Inc(i))
    ELSE MergeLoopNoStepBack(bs, Inc(i))

RECURSIVE MergeLoopEitherFree(_, _)
MergeLoopEitherFree(bs, i) ==
    IF ~(i < SizeMinusOne(bs)) THEN bs
    ELSE IF empty(bs[i + 1]) \/ empty(bs[i + 2])
    THEN MergeLoopEitherFree(Erase([bs EXCEPT ![i + 1].end = bs[i + 2].end],
                                   i + 1), Inc(Dec(i)))
    ELSE MergeLoopEitherFree(bs, Inc(i))

RECURSIVE MergeLoop(_, _)
MergeLoop(bs, i) ==
    IF ~(i < SizeMinusOne(bs)) THEN bs
    ELSE IF empty(bs[i + 1]) /\ empty(bs[i + 2])
    THEN MergeLoop(Erase([bs EXCEPT ![i + 1].end = bs[i + 2].end], i + 1),
                   Inc(Dec(i)))
    ELSE MergeLoop(bs, Inc(i))

mergeAdjacentFreeBlocksFromOne(bs) == MergeLoop(SortByStart(bs), 1)

mergeAdjacentFreeBlocks(bs) == MergeLoop(SortByStart(bs), 0)

(* ------------------------- release ------------------------------------- *)

\* The for loop of release from index i on, carrying `found`.  The loop
\* re-reads blocks.size() on every iteration, after the merge has run.
RECURSIVE ReleaseLoopAlwaysFound(_, _, _, _)
ReleaseLoopAlwaysFound(bs, process, i, found) ==
    IF i >= Len(bs) THEN [ok |-> TRUE, blocks |-> bs]
    ELSE IF bs[i + 1].process = process
    THEN ReleaseLoopAlwaysFound(
             mergeAdjacentFreeBlocks([bs EXCEPT ![i + 1].process = ""]),
             process, i + 1, TRUE)
    ELSE ReleaseLoopAlwaysFound(bs, process, i + 1, found)

RECURSIVE ReleaseLoop(_, _, _, _)
ReleaseLoop(bs, process, i, found) ==
    IF i >= Len(bs) THEN [ok |-> found, blocks |-> bs]
    ELSE IF bs[i + 1].process = process
    THEN ReleaseLoop(mergeAdjacentFreeBlocks([bs EXCEPT ![i + 1].process = ""]),
                     process, i + 1, TRUE)
    ELSE ReleaseLoop(bs, process, i + 1, found)

release(bs, process) == ReleaseLoop(bs, process, 0, FALSE)

(* ------------------------- compaction ---------------------------------- *)

\* The range-for of compact over the sorted blocks from index i on, carrying
\* nextFreeAddress and newBlocks.
RECURSIVE CompactLoopOffByOne(_, _, _, _)
CompactLoopOffByOne(bs, i, nextFreeAddress, newBlocks) ==
    IF i >= Len(bs)
    THEN [nextFreeAddress |-> nextFreeAddress, newBlocks |-> newBlocks]
    ELSE IF ~empty(bs[i + 1])
    THEN CompactLoopOffByOne(bs, i + 1, nextFreeAddress + size(bs[i + 1]),
             Append(newBlocks,
                    MemoryBlock(nextFreeAddress,
                                nextFreeAddress + size(bs[i + 1]),
                                bs[i + 1].process)))
    ELSE CompactLoopOffByOne(bs, i + 1, nextFreeAddress, newBlocks)

RECURSIVE CompactLoop(_, _, _, _)
CompactLoop(bs, i, nextFreeAddress, newBlocks) ==
    IF i >= Len(bs)
    THEN [nextFreeAddress |-> nextFreeAddress, newBlocks |-> newBlocks]
    ELSE IF ~empty(bs[i + 1])
    THEN CompactLoop(bs, i + 1, nextFreeAddress + size(bs[i + 1]),
             Append(newBlocks,
                    MemoryBlock(nextFreeAddress,
                                nextFreeAddress + size(bs[i + 1]) - 1,
                                bs[i + 1].process)))
    ELSE CompactLoop(bs, i + 1, nextFreeAddress, newBlocks)

compactTailOffByOne(bs, mem) ==
    LET r == CompactLoop(SortByStart(bs), 0, 0, << >>)
    IN  IF r.nextFreeAddress < mem - 1
        THEN Append(r.newBlocks, MemoryBlock(r.nextFreeAddress, mem - 1, ""))
        ELSE r.newBlocks

compact(bs, mem) ==
    LET r == CompactLoop(SortByStart(bs), 0, 0, << >>)
    IN  IF r.nextFreeAddress < mem
        THEN Append(r.newBlocks, MemoryBlock(r.nextFreeAddress, mem - 1, ""))
        ELSE r.newBlocks

(* ------------------------- state --------------------------------------- *)

VARIABLES
    maxMemory,  \* MemoryAllocator::maxMemory
    blocks,     \* MemoryAllocator::blocks
    pre,        \* blocks as they were when the last command was dispatched
    call,       \* the last command dispatched by main and its arguments
    ret,        \* what the allocator returned to main for that command
    frame,      \* where control is, with the locals of the running loops
    malformed   \* commands dispatched from the first malformed RQ line on

vars == << maxMemory, blocks, pre, call, ret, frame, malformed >>

\* Control is in the command loop of main: no allocator method is running.
\* pc names the loop that runs, i and found are the locals of release, j is
\* the index of mergeAdjacentFreeBlocks and from is the caller it returns to.
InMain == [pc |-> "main", i |-> 0, j |-> 0, found |-> FALSE, from |-> "main"]

\* MemoryAllocator(size) with the size main read: one block [0, size - 1]
\* labelled free, also when size <= 0 and the block has no address at all.
Init ==
    /\ maxMemory \in MinMemory..MaxMemory
    /\ blocks = << MemoryBlock(0, maxMemory - 1, "") >>
    /\ pre = blocks
    /\ call = [op |-> "new", process |-> "", size |-> maxMemory, strategy |-> ""]
    /\ ret = TRUE
    /\ frame = InMain
    /\ malformed = 0

\* A request with these arguments breaks the allocation contract.
Malformed(process, sz) == process = "" \/ sz <= 0

\* The count of commands from the first malformed request on, after one more
\* command that is (isMalformed) or is not such a request.
TailAfter(isMalformed) ==
    IF malformed > 0 \/ isMalformed THEN malformed + 1 ELSE 0

\* The RQ branch of main with the arguments process, sz and strategy that
\* `iss >> process >> size >> strategy` left in its three variables.
RequestWith(process, sz, strategy) ==
    LET r == processRequest(blocks, maxMemory, process, sz, strategy)
    IN  /\ malformed' = TailAfter(Malformed(process, sz))
        /\ malformed' <= MaxMalformedTail
        /\ blocks' = r.blocks
        /\ ret' = r.ok
        /\ pre' = blocks
        /\ call' = [op |-> "RQ", process |-> process, size |-> sz,
                    strategy |-> strategy]
        /\ UNCHANGED << maxMemory, frame >>

\* RQ <process> <size> <strategy>, well-formed or not.  main calls
\* processRequest whatever the extraction did: with no argument process is
\* the empty string and size and strategy, which have no initialiser, are
\* read as they are (any value); a size that does not parse is 0.
Request ==
    \E process \in ReleaseLabels, sz \in MinRequest..MaxRequest,
       strategy \in StrategyLetters :
        RequestWith(process, sz, strategy)

\* RQ <process> <size> <strategy> with a non-empty process name and a size
\* greater than 0: the requests the allocation contract admits.
RequestInContract ==
    \E process \in Owners, sz \in 1..MaxRequest, strategy \in StrategyLetters :
        RequestWith(process, sz, strategy)

\* RL <process>
Release ==
    \E process \in ReleaseLabels :
        LET r == release(blocks, process)
        IN  /\ blocks' = r.blocks
            /\ ret' = r.ok
            /\ pre' = blocks
            /\ call' = [op |-> "RL", process |-> process, size |-> 0,
                        strategy |-> ""]
            /\ malformed' = TailAfter(FALSE)
            /\ malformed' <= MaxMalformedTail
            /\ UNCHANGED << maxMemory, frame >>

\* C
Compact ==
    /\ blocks' = compact(blocks, maxMemory)
    /\ ret' = TRUE
    /\ pre' = blocks
    /\ call' = [op |-> "C", process |-> "", size |-> 0, strategy |-> ""]
    /\ malformed' = TailAfter(FALSE)
    /\ malformed' <= MaxMalformedTail
    /\ UNCHANGED << maxMemory, frame >>

Next == Request \/ Release \/ Compact

\* The program under every command line.
Spec == Init /\ [][Next]_vars

NextInContract == RequestInContract \/ Release \/ Compact

\* The program, started with any total memory size, under command lines
\* whose requests keep the allocation contract (non-empty process name,
\* size > 0).
SpecInContract == Init /\ [][NextInContract]_vars

(* ------------------------- helpers of the properties ------------------- *)

Allocated(b) == ~empty(b)

\* The last command was a request with one of the three strategies.
IsRequest == call.op = "RQ" /\ call.strategy \in {"F", "B", "W"}

\* Block k of the partition bs can hold n bytes.
Candidate(bs, k, n) == empty(bs[k]) /\ size(bs[k]) >= n

\* The indices of the blocks of bs labelled p.
Labelled(bs, p) == {k \in 1..Len(bs) : bs[k].process = p}

RECURSIVE SumSizes(_)
SumSizes(bs) == IF bs = << >> THEN 0 ELSE size(Head(bs)) + SumSizes(Tail(bs))

(* ------------------------- C1 ------------------------------------------ *)

\* C1: in every state reachable from construction with a total memory size
\* greater than 0 the block sequence is sorted by strictly ascending start,
\* every block has size >= 1, the first block starts at 0, the last block ends
\* at maxMemory - 1, and each block starts one past the end of its
\* predecessor.
PartitionInvariant ==
    maxMemory > 0 =>
        /\ Len(blocks) >= 1
        /\ blocks[1].start = 0
        /\ blocks[Len(blocks)].end = maxMemory - 1
        /\ \A k \in 1..Len(blocks) : size(blocks[k]) >= 1
        /\ \A k \in 1..(Len(blocks) - 1) :
              /\ blocks[k].start < blocks[k + 1].start
              /\ blocks[k + 1].start = blocks[k].end + 1

\* A successful allocation that took a free block lying behind other blocks
\* and left a remainder: the new block is pushed at the back and sorted in.
PartitionWitness ==
    /\ IsRequest /\ ret
    /\ Len(blocks) >= 4
    /\ \E k \in 2..(Len(blocks) - 2) :
          /\ blocks[k] \notin {pre[j] : j \in 1..Len(pre)}
          /\ blocks[k].process = call.process

(* ------------------------- C2 ------------------------------------------ *)

\* C2: after release(owner) returns, no block of the partition carries the
\* label owner, however many blocks the owner held.
ReleaseFreesAll ==
    (call.op = "RL" /\ call.process \in Owners)
        => Labelled(blocks, call.process) = {}

(* ------------------------- C3 ------------------------------------------ *)

\* C3: after every allocate, release or compact call no two consecutive
\* blocks of the partition are both free.
NoAdjacentFree ==
    \A k \in 1..(Len(blocks) - 1) : ~(empty(blocks[k]) /\ empty(blocks[k + 1]))

\* A release that freed a block lying between two free blocks: a chain of
\* three free blocks had to be merged.
NoAdjacentFreeWitness ==
    /\ call.op = "RL" /\ call.process \in Owners /\ ret
    /\ \E k \in 2..(Len(pre) - 1) :
          /\ pre[k].process = call.process
          /\ empty(pre[k - 1]) /\ empty(pre[k + 1])

(* ------------------------- C4 ------------------------------------------ *)

\* C4: a successful best-fit request puts the new block at the start of the
\* free block that is smallest among the free blocks of size >= n of the
\* pre-call partition, the lowest-addressed one among equally small ones.
BestFitPlacement ==
    (call.op = "RQ" /\ call.strategy = "B" /\ ret) =>
        \E k \in 1..Len(pre) :
            /\ Candidate(pre, k, call.size)
            /\ \A j \in 1..Len(pre) : Candidate(pre, j, call.size) =>
                  \/ size(pre[k]) < size(pre[j])
                  \/ size(pre[k]) = size(pre[j]) /\ pre[k].start <= pre[j].start
            /\ \E m \in 1..Len(blocks) :
                  blocks[m] = MemoryBlock(pre[k].start,
                                          pre[k].start + call.size - 1,
                                          call.process)

\* A successful best-fit request with two smallest free blocks of equal size.
BestFitWitness ==
    /\ call.op = "RQ" /\ call.strategy = "B" /\ ret
    /\ \E k, j \in 1..Len(pre) :
          /\ k < j
          /\ Candidate(pre, k, call.size) /\ Candidate(pre, j, call.size)
          /\ size(pre[k]) = size(pre[j])
          /\ \A i \in 1..Len(pre) :
                Candidate(pre, i, call.size) => size(pre[i]) >= size(pre[k])

(* ------------------------- C5 ------------------------------------------ *)

\* C5: a successful worst-fit request puts the new block at the start of the
\* free block that is largest among the free blocks of size >= n of the
\* pre-call partition, the lowest-addressed one among equally large ones.
WorstFitPlacement ==
    (call.op = "RQ" /\ call.strategy = "W" /\ ret) =>
        \E k \in 1..Len(pre) :
            /\ Candidate(pre, k, call.size)
            /\ \A j \in 1..Len(pre) : Candidate(pre, j, call.size) =>
                  \/ size(pre[k]) > size(pre[j])
                  \/ size(pre[k]) = size(pre[j]) /\ pre[k].start <= pre[j].start
            /\ \E m \in 1..Len(blocks) :
                  blocks[m] = MemoryBlock(pre[k].start,
                                          pre[k].start + call.size - 1,
                                          call.process)

\* A successful worst-fit request with two largest free blocks of equal size.
WorstFitWitness ==
    /\ call.op = "RQ" /\ call.strategy = "W" /\ ret
    /\ \E k, j \in 1..Len(pre) :
          /\ k < j
          /\ Candidate(pre, k, call.size) /\ Candidate(pre, j, call.size)
          /\ size(pre[k]) = size(pre[j])
          /\ \A i \in 1..Len(pre) :
                Candidate(pre, i, call.size) => size(pre[i]) <= size(pre[k])

(* ------------------------- C6 ------------------------------------------ *)

\* C6: a successful first-fit request puts the new block at the start of the
\* lowest-addressed free block of size >= n of the pre-call partition; no
\* free block of size >= n lies at a lower address than the new block.
FirstFitPlacement ==
    (call.op = "RQ" /\ call.strategy = "F" /\ ret) =>
        \E k \in 1..Len(pre) :
            /\ Candidate(pre, k, call.size)
            /\ \A j \in 1..Len(pre) :
                  Candidate(pre, j, call.size) => pre[k].start <= pre[j].start
            /\ \E m \in 1..Len(blocks) :
                  /\ blocks[m] = MemoryBlock(pre[k].start,
                                             pre[k].start + call.size - 1,
                                             call.process)
                  /\ \A j \in 1..Len(pre) :
                        Candidate(pre, j, call.size)
                            => blocks[m].start <= pre[j].start

\* A successful first-fit request that had to skip a free block that was too
\* small and had a second, exactly fitting block to choose from further up.
FirstFitWitness ==
    /\ call.op = "RQ" /\ call.strategy = "F" /\ ret
    /\ \E i, k \in 1..Len(pre) :
          /\ i < k
          /\ empty(pre[i]) /\ size(pre[i]) < call.size
          /\ Candidate(pre, k, call.size)
          /\ \E m \in 1..Len(blocks) :
                blocks[m].start = pre[k].start /\ Allocated(blocks[m])

(* ------------------------- C7 ------------------------------------------ *)

\* What the split of free block k of bs into n bytes for p must produce.
SplitOf(bs, k, p, n) ==
    LET s == bs[k].start
        e == bs[k].end
    IN  SubSeq(bs, 1, k - 1)
        \o << MemoryBlock(s, s + n - 1, p) >>
        \o (IF size(bs[k]) > n THEN << MemoryBlock(s + n, e, "") >> ELSE << >>)
        \o SubSeq(bs, k + 1, Len(bs))

\* C7: a successful request of n bytes for a process p that held no block
\* replaces the chosen free block [s, e] by [s, s+n-1] labelled p, followed
\* by the free remainder [s+n, e] only when the block was larger than n;
\* afterwards exactly one block is labelled p, its size is n, and every other
\* block keeps its start, end and label.
SplitEffect ==
    (IsRequest /\ ret /\ Labelled(pre, call.process) = {}) =>
        /\ \E k \in 1..Len(pre) :
              /\ Candidate(pre, k, call.size)
              /\ blocks = SplitOf(pre, k, call.process, call.size)
        /\ Cardinality(Labelled(blocks, call.process)) = 1
        /\ \A m \in Labelled(blocks, call.process) :
              size(blocks[m]) = call.size

\* An exact fit into a free block that lies between two other blocks: the
\* free block disappears and no remainder is created.
SplitWitness ==
    /\ IsRequest /\ ret /\ Labelled(pre, call.process) = {}
    /\ Len(blocks) = Len(pre)
    /\ \E k \in 2..(Len(pre) - 1) :
          /\ empty(pre[k]) /\ size(pre[k]) = call.size
          /\ blocks[k].process = call.process

(* ------------------------- C8 ------------------------------------------ *)

\* C8: for each of the three strategies a request of n bytes succeeds if and
\* only if the pre-call partition has a free block of size >= n, and a
\* failed request leaves the partition as it was.
AllocateSucceedsIffFits ==
    IsRequest =>
        /\ ret <=> (\E k \in 1..Len(pre) : Candidate(pre, k, call.size))
        /\ ~ret => blocks = pre

\* A failed request although the free space adds up to at least n bytes: it
\* is split over free blocks that are each smaller than n.
FragmentedFailureWitness ==
    /\ IsRequest /\ ~ret
    /\ blocks = pre
    /\ SumSizes(SelectSeq(pre, empty)) >= call.size
    /\ Cardinality(Labelled(pre, "")) >= 2

(* ------------------------- C9 ------------------------------------------ *)

\* C9: after compact() the allocated blocks are the pre-call allocated blocks
\* in the same order, each with its label and size, packed from address 0;
\* when their total size is below maxMemory one free block follows, covering
\* the rest up to maxMemory - 1, and otherwise there is no free block.
CompactionPacksLeft ==
    call.op = "C" =>
        LET old == SelectSeq(pre, Allocated)
            n == Len(old)
            total == SumSizes(old)
        IN  /\ Len(blocks) = IF total < maxMemory THEN n + 1 ELSE n
            /\ \A k \in 1..n :
                  /\ blocks[k].process = old[k].process
                  /\ size(blocks[k]) = size(old[k])
                  /\ blocks[k].start = SumSizes(SubSeq(old, 1, k - 1))
            /\ total < maxMemory
                  => blocks[n + 1] = MemoryBlock(total, maxMemory - 1, "")
            /\ Cardinality(Labelled(blocks, "")) =
                  IF total < maxMemory THEN 1 ELSE 0

\* A compaction that closes a gap between two allocated blocks of different
\* owners: the upper one moves down and keeps its place after the lower one.
CompactionWitness ==
    /\ call.op = "C"
    /\ \E i, j, k \in 1..Len(pre) :
          /\ i < j /\ j < k
          /\ Allocated(pre[i]) /\ empty(pre[j]) /\ Allocated(pre[k])
          /\ pre[i].process # pre[k].process
          /\ \E m \in 1..(Len(blocks) - 1) :
                /\ blocks[m].process = pre[i].process
                /\ blocks[m + 1].process = pre[k].process
                /\ blocks[m + 1].start < pre[k].start

(* ------------------------- C10 ----------------------------------------- *)

\* C10: release of a non-empty label that no block carries returns failure
\* and leaves the partition as it was; release of a label that at least one
\* block carries returns success.
ReleaseResult ==
    (call.op = "RL" /\ call.process \in Owners) =>
        /\ Labelled(pre, call.process) = {} => (~ret /\ blocks = pre)
        /\ Labelled(pre, call.process) # {} => ret

\* A failed release of a process that holds nothing while another process
\* holds a block.
ReleaseUnknownWitness ==
    /\ call.op = "RL" /\ call.process \in Owners
    /\ Labelled(pre, call.process) = {}
    /\ ~ret
    /\ \E k \in 1..Len(pre) : Allocated(pre[k])

(* ------------------------- C11 ----------------------------------------- *)

\* The upper-case letter of a strategy character.
ToUpper(c) ==
    CASE c = "f" -> "F"
      [] c = "b" -> "B"
      [] c = "w" -> "W"
      [] OTHER -> c

\* C11: the strategy letter of a request is case-insensitive: a request with
\* a lower-case letter returns the same result and produces the same
\* partition as the request with the upper-case letter.
StrategyCaseInsensitive ==
    (call.op = "RQ" /\ call.strategy \in {"f", "b", "w"}) =>
        LET r == processRequest(pre, maxMemory, call.process, call.size,
                                ToUpper(call.strategy))
        IN  ret = r.ok /\ blocks = r.blocks

(* ------------------------- C12 ----------------------------------------- *)

\* C12: a request whose strategy letter is outside {F, B, W} returns failure
\* and leaves the partition as it was, whatever the owner, the size and the
\* free space.
InvalidStrategyRejected ==
    (call.op = "RQ" /\ call.strategy \notin {"F", "B", "W"}) =>
        (~ret /\ blocks = pre)

\* A rejected request with a letter that is no strategy although a free block
\* could have held the requested size.
InvalidStrategyWitness ==
    /\ call.op = "RQ" /\ call.strategy = "Q"
    /\ call.process # "" /\ call.size > 0
    /\ ~ret /\ blocks = pre
    /\ \E k \in 1..Len(pre) : Candidate(pre, k, call.size)
    /\ \E k \in 1..Len(pre) : Allocated(pre[k])

(* ------------------------- C13 ----------------------------------------- *)

\* Every gap-free, non-overlapping block sequence covering [from, mem) with
\* labels drawn from ReleaseLabels, sorted by start; neighbours may both be
\* free.
RECURSIVE Partitions(_, _)
Partitions(from, mem) ==
    IF from >= mem THEN {<< >>}
    ELSE UNION {{<< MemoryBlock(from, e, p) >> \o rest :
                    p \in ReleaseLabels, rest \in Partitions(e + 1, mem)} :
                e \in from..(mem - 1)}

\* An allocator whose block vector holds an arbitrary partition.
InitMerge ==
    /\ maxMemory \in 1..MaxMemory
    /\ blocks \in Partitions(0, maxMemory)
    /\ pre = blocks
    /\ call = [op |-> "any", process |-> "", size |-> maxMemory, strategy |-> ""]
    /\ ret = TRUE
    /\ frame = InMain
    /\ malformed = 0

\* A call of the public method mergeAdjacentFreeBlocks().
MergeCall ==
    /\ blocks' = mergeAdjacentFreeBlocks(blocks)
    /\ ret' = TRUE
    /\ pre' = blocks
    /\ call' = [op |-> "M", process |-> "", size |-> 0, strategy |-> ""]
    /\ UNCHANGED << maxMemory, frame, malformed >>

NextMerge == MergeCall

SpecMerge == InitMerge /\ [][NextMerge]_vars

\* Blocks i..j of bs are a maximal run of free blocks.
MaximalFreeRun(bs, i, j) ==
    /\ i <= j
    /\ \A k \in i..j : empty(bs[k])
    /\ i = 1 \/ Allocated(bs[i - 1])
    /\ j = Len(bs) \/ Allocated(bs[j + 1])

\* C13: mergeAdjacentFreeBlocks turns every maximal run of free blocks, of
\* whatever length, into one free block from the run's first start to its
\* last end, leaves no two consecutive free blocks, and keeps the start, end
\* and label of every allocated block.
CoalesceChains ==
    call.op = "M" =>
        /\ \A i, j \in 1..Len(pre) : MaximalFreeRun(pre, i, j) =>
              \E m \in 1..Len(blocks) :
                  blocks[m] = MemoryBlock(pre[i].start, pre[j].end, "")
        /\ \A k \in 1..(Len(blocks) - 1) :
              ~(empty(blocks[k]) /\ empty(blocks[k + 1]))
        /\ SelectSeq(blocks, Allocated) = SelectSeq(pre, Allocated)
        /\ Len(blocks) = Len(SelectSeq(pre, Allocated))
              + Cardinality({i \in 1..Len(pre) :
                               \E j \in 1..Len(pre) : MaximalFreeRun(pre, i, j)})

\* A merge of a chain of three or more free blocks that begins at the bottom
\* of memory and is followed by an allocated block.
CoalesceWitness ==
    /\ call.op = "M"
    /\ \E j \in 3..(Len(pre) - 1) : MaximalFreeRun(pre, 1, j)
    /\ Len(blocks) = 2
    /\ empty(blocks[1]) /\ Allocated(blocks[2])

(* ------------------------- C14 ----------------------------------------- *)

\* C14: release called with the empty label returns failure and leaves the
\* partition as it was in every reachable state.
ReleaseEmptyFails ==
    (call.op = "RL" /\ call.process = "") => (~ret /\ blocks = pre)

(* ------------------------- C15 ----------------------------------------- *)

\* An allocated block of another process than the one of the last command.
OtherOwner(b) == Allocated(b) /\ b.process # call.process

\* C15: release(owner) changes only the owner's blocks and free blocks: the
\* blocks labelled with another non-empty owner are, in the same order, the
\* same blocks with the same start, end and label as before the call.
ReleaseFrame ==
    call.op = "RL" =>
        SelectSeq(blocks, OtherOwner) = SelectSeq(pre, OtherOwner)

\* A successful release of a block that lay between a block of another owner
\* and a free block, so that a merge ran next to the other owner's block.
ReleaseFrameWitness ==
    /\ call.op = "RL" /\ call.process \in Owners /\ ret
    /\ Len(blocks) < Len(pre)
    /\ \E k \in 2..(Len(pre) - 1) :
          /\ pre[k].process = call.process
          /\ \/ OtherOwner(pre[k - 1]) /\ empty(pre[k + 1])
             \/ empty(pre[k - 1]) /\ OtherOwner(pre[k + 1])

(* ------------------------- C16 ----------------------------------------- *)

\* The blocks of bs as a set.
BlocksOf(bs) == {bs[k] : k \in 1..Len(bs)}

\* C16: a request for a process that already holds blocks is not rejected:
\* it succeeds whenever a free block of size >= n exists, afterwards the
\* partition holds one more block of that process than before, and the
\* earlier blocks of the process are unchanged.
SecondAllocationAccepted ==
    (IsRequest /\ Labelled(pre, call.process) # {}) =>
        /\ (\E k \in 1..Len(pre) : Candidate(pre, k, call.size)) => ret
        /\ ret =>
              /\ Cardinality(Labelled(blocks, call.process))
                    = Cardinality(Labelled(pre, call.process)) + 1
              /\ \A k \in Labelled(pre, call.process) :
                    pre[k] \in BlocksOf(blocks)

\* A successful first-fit request for a process that already held a block.
SecondAllocationWitness ==
    /\ IsRequest /\ call.strategy = "F" /\ ret
    /\ Labelled(pre, call.process) # {}
    /\ Cardinality(Labelled(blocks, call.process)) >= 2

(* ------------------------- C17 ----------------------------------------- *)

\* The loop condition of mergeAdjacentFreeBlocks: i < blocks.size() - 1.
MergeCondNoMinusOne(bs, j) == j < Len(bs)

MergeCond(bs, j) == j < SizeMinusOne(bs)

\* The loop body of mergeAdjacentFreeBlocks at index j: the vector and the
\* index it leaves, before the i++ of the loop header.
MergeBody(bs, j) ==
    IF empty(bs[j + 1]) /\ empty(bs[j + 2])
    THEN [blocks |-> Erase([bs EXCEPT ![j + 1].end = bs[j + 2].end], j + 1),
          j |-> Dec(j)]
    ELSE [blocks |-> bs, j |-> j]

\* main calls release(process): found = false, i = 0.
BeginRelease ==
    /\ frame.pc = "main"
    /\ \E process \in ReleaseLabels :
          call' = [op |-> "RL", process |-> process, size |-> 0,
                   strategy |-> ""]
    /\ pre' = blocks
    /\ frame' = [pc |-> "release", i |-> 0, j |-> 0, found |-> FALSE,
                 from |-> "main"]
    /\ UNCHANGED << maxMemory, blocks, ret, malformed >>

\* One test of the loop condition of release and, when it holds, one pass
\* through the body up to the call of mergeAdjacentFreeBlocks, whose sort
\* runs on entry; when it fails, release returns found.
ReleaseIter ==
    /\ frame.pc = "release"
    /\ IF frame.i < Len(blocks)
       THEN IF blocks[frame.i + 1].process = call.process
            THEN /\ blocks' = SortByStart(
                                 [blocks EXCEPT ![frame.i + 1].process = ""])
                 /\ frame' = [frame EXCEPT !.pc = "merge", !.j = 0,
                                           !.found = TRUE, !.from = "release"]
                 /\ UNCHANGED ret
            ELSE /\ frame' = [frame EXCEPT !.i = frame.i + 1]
                 /\ UNCHANGED << blocks, ret >>
       ELSE /\ ret' = frame.found
            /\ frame' = InMain
            /\ UNCHANGED blocks
    /\ UNCHANGED << maxMemory, pre, call, malformed >>

\* main calls mergeAdjacentFreeBlocks(): the sort runs, i = 0.
BeginMerge ==
    /\ frame.pc = "main"
    /\ blocks' = SortByStart(blocks)
    /\ pre' = blocks
    /\ call' = [op |-> "M", process |-> "", size |-> 0, strategy |-> ""]
    /\ frame' = [pc |-> "merge", i |-> 0, j |-> 0, found |-> FALSE,
                 from |-> "main"]
    /\ UNCHANGED << maxMemory, ret, malformed >>

\* One test of the loop condition of mergeAdjacentFreeBlocks and, when it
\* holds, one pass through the body and the i++ of the header; when it
\* fails, the method returns to its caller (release goes on with its i++).
\* A pass that reads blocks[i] or blocks[i + 1] beyond the end of the vector
\* has undefined behaviour: control is lost.
MergeIter ==
    /\ frame.pc = "merge"
    /\ IF MergeCond(blocks, frame.j)
       THEN IF frame.j + 2 > Len(blocks)
            THEN /\ frame' = [frame EXCEPT !.pc = "undefined"]
                 /\ UNCHANGED << blocks, ret >>
            ELSE LET r == MergeBody(blocks, frame.j)
                 IN  /\ blocks' = r.blocks
                     /\ frame' = [frame EXCEPT !.j = Inc(r.j)]
                     /\ UNCHANGED ret
       ELSE IF frame.from = "release"
            THEN /\ frame' = [frame EXCEPT !.pc = "release",
                                           !.i = frame.i + 1]
                 /\ UNCHANGED << blocks, ret >>
            ELSE /\ frame' = InMain
                 /\ ret' = TRUE
                 /\ UNCHANGED blocks
    /\ UNCHANGED << maxMemory, pre, call, malformed >>

NextSteps == BeginRelease \/ ReleaseIter \/ BeginMerge \/ MergeIter

\* A method that was called keeps running: the program is sequential and
\* nothing else can be scheduled in its place.
SpecSteps ==
    InitMerge /\ [][NextSteps]_vars /\ WF_vars(ReleaseIter) /\ WF_vars(MergeIter)

\* C17: the loops of mergeAdjacentFreeBlocks and of release never read or
\* erase an index outside the block vector, and every call of either method
\* returns to main.
LoopsTerminateInRange ==
    /\ [](frame.pc # "undefined")
    /\ [](frame.pc = "merge" =>
            (MergeCond(blocks, frame.j) => frame.j + 2 <= Len(blocks)))
    /\ [](frame.pc = "release" => frame.i <= Len(pre))
    /\ (frame.pc # "main") ~> (frame.pc = "main")

\* The first block was the released one and has just been merged with the
\* free block after it: the merge happened at index 0, the index stepped
\* back below zero and the loop header brought it back to 0.
LoopsWitness ==
    /\ frame.pc = "merge" /\ frame.from = "release"
    /\ frame.i = 0 /\ frame.j = 0
    /\ Len(blocks) < Len(pre)
    /\ Len(blocks) >= 2

(* ------------------------- C18 ----------------------------------------- *)

\* C18: when a request for a process that holds no block has succeeded, a
\* release of that process as the very next command succeeds and restores
\* the partition the request started from.
AllocateReleaseRoundTrip ==
    [][(/\ IsRequest /\ ret
        /\ Labelled(pre, call.process) = {}
        /\ call'.op = "RL"
        /\ call'.process = call.process)
          => (ret' /\ blocks' = pre)]_vars

\* A successful release of the only block of a process, which lay between a
\* block of another process and a free block and had been carved out of that
\* free space.
RoundTripWitness ==
    /\ call.op = "RL" /\ call.process \in Owners /\ ret
    /\ Cardinality(Labelled(pre, call.process)) = 1
    /\ \E k \in 2..(Len(pre) - 1) :
          /\ pre[k].process = call.process
          /\ OtherOwner(pre[k - 1]) /\ empty(pre[k + 1])
          /\ blocks[k] = MemoryBlock(pre[k].start, pre[k + 1].end, "")
    /\ Len(blocks) = Len(pre) - 1

(* ------------------------- C19 ----------------------------------------- *)

\* C19: a request that follows compact() directly succeeds if and only if
\* its size is at most maxMemory minus the total size of the allocated blocks,
\* and with each of the three strategies the new block starts at that total.
CompactThenAllocate ==
    [][(/\ call.op = "C"
        /\ call'.op = "RQ"
        /\ call'.strategy \in {"F", "B", "W"})
          => LET total == SumSizes(SelectSeq(blocks, Allocated))
             IN  /\ ret' <=> (call'.size <= maxMemory - total)
                 /\ ret' => MemoryBlock(total, total + call'.size - 1,
                                        call'.process) \in BlocksOf(blocks')]_vars

\* A partition is packed: allocated blocks from address 0 on without gaps,
\* followed by at most one free block.
Packed(bs) ==
    /\ bs # << >> => bs[1].start = 0
    /\ \A k \in 1..(Len(bs) - 1) :
          Allocated(bs[k]) /\ bs[k + 1].start = bs[k].end + 1

\* A successful request on a packed partition that holds allocated blocks
\* and whose free tail is larger than the request: the new block starts at
\* the total allocated size.
CompactThenAllocateWitness ==
    /\ IsRequest /\ ret
    /\ pre = compact(pre, maxMemory)
    /\ Len(pre) >= 2
    /\ Len(blocks) = Len(pre) + 1
    /\ blocks[Len(pre)] = MemoryBlock(SumSizes(SelectSeq(pre, Allocated)),
                                      SumSizes(SelectSeq(pre, Allocated))
                                          + call.size - 1,
                                      call.process)

(* ------------------------- C20 ----------------------------------------- *)

\* C20: in any reachable state compact() called directly after compact(), or
\* on a partition that is already packed, leaves the partition as it is.
CompactIdempotent ==
    [][(call'.op = "C" /\ (call.op = "C" \/ Packed(blocks)))
          => blocks' = blocks]_vars
====
